---- MODULE Spec2Model ----
(***************************************************************************)
(* State-machine model of the interactive gallery of                       *)
(* src/src/Experience/Experience.jsx:                                      *)
(*   - the zoom / drag controller   (handleDrag, handleZoom),              *)
(*   - the selection / popup state  (handleImageClick, handleClosePopup,   *)
(*     handleNext, handlePrevious, the popup scale-in effect),             *)
(*   - the keyboard pan animator    (handleKeyDown, the useFrame step).    *)
(*                                                                         *)
(* Numbers.  JavaScript numbers are modelled in fixed point:               *)
(*   zoom levels and pan offsets in tenths        (15.0  -> 150),          *)
(*   camera coordinates in ten-thousandths        (0.2   -> 2000),         *)
(*   the popup scale in millionths                (0.7   -> 700000).       *)
(* A product with a fraction (x * 0.1, x * 0.15) is truncated toward zero  *)
(* at that resolution.  null and NaN are records of their own kind, so     *)
(* that an index that is not a number is distinguishable from every        *)
(* number.                                                                 *)
(***************************************************************************)
EXTENDS Integers, Sequences, FiniteSets

VARIABLES
    currentZoomLevel,          \* zoom level, tenths
    position,                  \* pan offset {x, y}, tenths
    imagesData,                \* the catalog: sequence of image ids
    selectedImageIndex,        \* Null, Num(i) or NaN
    showPopup,                 \* BOOLEAN
    crashed,                   \* a render threw: the tree is unmounted
    popupScale,                \* React state of FixedImagePopup, millionths
    scale,                     \* the effect closure's local `scale`
    animationFrame,            \* TRUE while a requestAnimationFrame is pending
    controlsReady,             \* controlsRef.current is set
    cameraPosition,            \* controlsRef.current.object.position (x, y)
    controlsTarget,            \* controlsRef.current.target (x, y)
    targetCameraPositionRef,   \* Null or a vector
    targetControlsLookAtRef,   \* Null or a vector
    isAnimatingPanRef,         \* BOOLEAN
    keysPressed,               \* number of directional key presses handled
    framesSinceKey,            \* frames since the last of them, up to MaxGap + 1
    pointerMoves,              \* number of pointer-driven camera moves made
    last                       \* history: the last operation and its input

zoomVars == <<currentZoomLevel, position>>
selVars  == <<imagesData, selectedImageIndex, showPopup, crashed>>
animVars == <<popupScale, scale, animationFrame>>
panVars  == <<controlsReady, cameraPosition, controlsTarget,
              targetCameraPositionRef, targetControlsLookAtRef,
              isAnimatingPanRef, keysPressed, framesSinceKey, pointerMoves>>
vars == <<zoomVars, selVars, animVars, panVars, last>>

\* ------------------------------------------------------------------ values

Null   == [kind |-> "null"]
NaN    == [kind |-> "NaN"]
Num(n) == [kind |-> "number", value |-> n]

IsNum(v) == v.kind = "number"

Vec(a, b) == [x |-> a, y |-> b]
Origin    == Vec(0, 0)

\* ------------------------------------------------------------------ bounds

MaxDeltaSteps == 4     \* zoom deltas range over -MaxDeltaSteps..MaxDeltaSteps steps
MaxMove       == 1     \* pointer movement per drag event, per axis
MaxOffset     == 60    \* drags are explored while |offset| <= MaxOffset (tenths)
MaxCatalog    == 3     \* catalogs of 0..MaxCatalog images
MaxId         == 4     \* image ids are 1..MaxId
MaxRun        == 4     \* consecutive next()/previous() calls counted per run
MaxKeys       == 2     \* directional key presses handled in one behaviour
MaxGap        == 1     \* frames between two of them while the pan animates
MaxPointerMoves == 1   \* pointer-driven camera moves in one behaviour

\* ------------------------------------------------- zoom / drag controller

minZoomLevel == 150    \* 15.0: the fully zoomed-out level
maxZoomLevel == 10     \* 1.0: the fully zoomed-in level
zoomedInBelow == 50    \* 5.0: threshold of the faster pan speed
basePanSpeed == 25     \* 2.5
fastPanSpeed == 30     \* 3.0

ZoomStep == maxZoomLevel \div 2      \* explored zoom deltas are multiples of 0.5
HugeDelta == 100 * minZoomLevel

ZoomLevels == { l \in maxZoomLevel..minZoomLevel : l % ZoomStep = 0 }

ZoomDeltas == { k * ZoomStep : k \in (-MaxDeltaSteps)..MaxDeltaSteps }
                  \cup {HugeDelta, -HugeDelta}

Movements == (-MaxMove)..MaxMove

Abs(n) == IF n < 0 THEN -n ELSE n

panSpeedFactor_inclusive(level) ==
    IF level <= zoomedInBelow THEN fastPanSpeed ELSE basePanSpeed

\* let panSpeedFactor = 2.5; if (currentZoomLevel < 5.0) panSpeedFactor = 3.0
panSpeedFactor(level) ==
    IF level < zoomedInBelow THEN fastPanSpeed ELSE basePanSpeed

\* setPosition(prev => ({x: prev.x + deltaX, y: prev.y + deltaY}))
DraggedPosition(pos, level, mx, my) ==
    Vec(pos.x + mx * panSpeedFactor(level), pos.y + my * panSpeedFactor(level))

handleDrag(mx, my) ==
    /\ Abs(DraggedPosition(position, currentZoomLevel, mx, my).x) <= MaxOffset
    /\ Abs(DraggedPosition(position, currentZoomLevel, mx, my).y) <= MaxOffset
    /\ position' = DraggedPosition(position, currentZoomLevel, mx, my)
    /\ last' = [op |-> "drag", movementX |-> mx, movementY |-> my]
    /\ UNCHANGED <<currentZoomLevel, selVars, animVars, panVars>>

ZoomedLevel_unclamped_low(level, delta) ==
    LET newZoomLevel == level + delta IN
    IF newZoomLevel <= minZoomLevel THEN newZoomLevel ELSE minZoomLevel

\* The level handleZoom stores: the candidate when it lies in
\* [maxZoomLevel, minZoomLevel], else the limit it passed.
ZoomedLevel(level, delta) ==
    LET newZoomLevel == level + delta IN
    IF newZoomLevel >= maxZoomLevel /\ newZoomLevel <= minZoomLevel
        THEN newZoomLevel
    ELSE IF newZoomLevel < maxZoomLevel THEN maxZoomLevel
    ELSE minZoomLevel

ZoomedPosition_no_center_on_exact(level, delta, pos) ==
    LET newZoomLevel == level + delta IN
    IF level = minZoomLevel THEN Origin
    ELSE IF newZoomLevel > minZoomLevel THEN Origin
    ELSE pos

ZoomedPosition_no_safety_net(level, delta, pos) ==
    LET newZoomLevel == level + delta IN
    IF newZoomLevel >= maxZoomLevel /\ newZoomLevel <= minZoomLevel
        THEN (IF newZoomLevel = minZoomLevel THEN Origin ELSE pos)
    ELSE IF newZoomLevel < maxZoomLevel THEN pos
    ELSE Origin

ZoomedPosition_no_center_on_clamp(level, delta, pos) ==
    LET newZoomLevel == level + delta IN
    IF level = minZoomLevel THEN Origin
    ELSE IF newZoomLevel = minZoomLevel THEN Origin
    ELSE pos

\* The offset handleZoom leaves: centred when the candidate is exactly
\* minZoomLevel, when it exceeds minZoomLevel, or when the level before the
\* call was minZoomLevel; untouched otherwise.
ZoomedPosition(level, delta, pos) ==
    LET newZoomLevel == level + delta
        afterBranches ==
            IF newZoomLevel >= maxZoomLevel /\ newZoomLevel <= minZoomLevel
                THEN (IF newZoomLevel = minZoomLevel THEN Origin ELSE pos)
            ELSE IF newZoomLevel < maxZoomLevel THEN pos
            ELSE Origin
    IN  IF level = minZoomLevel THEN Origin ELSE afterBranches

handleZoom(delta) ==
    /\ currentZoomLevel' = ZoomedLevel(currentZoomLevel, delta)
    /\ position' = ZoomedPosition(currentZoomLevel, delta, position)
    /\ last' = [op |-> "zoom", delta |-> delta, from |-> currentZoomLevel,
                 offset |-> position]
    /\ UNCHANGED <<selVars, animVars, panVars>>

\* ------------------------------------------------ selection / popup state

Ids == 1..MaxId

\* Catalogs: sequences of distinct ids (ImageRecord.id is unique).
Catalogs ==
    UNION { { c \in [1..n -> Ids] : \A i, j \in 1..n : c[i] = c[j] => i = j }
            : n \in 0..MaxCatalog }

findIndex_last_position(catalog, id) ==
    IF \E i \in 1..Len(catalog) : catalog[i] = id
        THEN Len(catalog) - 1
        ELSE -1

\* imagesData.findIndex(img => img.id === id): the 0-based position of the
\* first record with that id, -1 when there is none.
findIndex(catalog, id) ==
    IF \E i \in 1..Len(catalog) : catalog[i] = id
        THEN (CHOOSE i \in 1..Len(catalog) :
                 /\ catalog[i] = id
                 /\ \A j \in 1..(i - 1) : catalog[j] # id) - 1
        ELSE -1

\* ToNumber as the arithmetic operators apply it: null is 0.
ToNumber(v) == IF v.kind = "null" THEN Num(0) ELSE v

\* a + b on a possibly-NaN left operand
JsAdd(v, n) ==
    IF ToNumber(v).kind = "NaN" THEN NaN ELSE Num(ToNumber(v).value + n)

\* a % n: the remainder has the sign of the dividend; x % 0 is NaN.
JsRem(v, n) ==
    IF v.kind = "NaN" \/ n = 0 THEN NaN
    ELSE IF v.value >= 0 THEN Num(v.value % n)
    ELSE Num(-((-v.value) % n))

NextIndex_skip(prev, length) == JsRem(JsAdd(prev, 2), length)

\* (prev + 1) % imagesData.length
NextIndex(prev, length) == JsRem(JsAdd(prev, 1), length)

\* (prev - 1 + imagesData.length) % imagesData.length
PreviousIndex(prev, length) == JsRem(JsAdd(JsAdd(prev, -1), length), length)

\* showPopup && selectedImageIndex !== null: FixedImagePopup is rendered
PopupMounted(show, index) == show /\ index # Null

\* imagesData[index] is a record (anything else is undefined, and reading
\* image.path of it throws while FixedImagePopup renders)
ImageDefined(catalog, index) ==
    /\ IsNum(index)
    /\ index.value >= 0
    /\ index.value < Len(catalog)

initialPopupScale == 700000     \* 0.7
fullScale == 1000000            \* 1
scaleTolerance == 10000         \* 0.01
easingPercent == 15             \* 0.15

\* scale += (1 - scale) * 0.15
Eased(s) == s + ((fullScale - s) * easingPercent) \div 100

StillAnimating_tighter(s) == Abs(s - fullScale) > scaleTolerance \div 10

\* Math.abs(scale - 1) > 0.01
StillAnimating(s) == Abs(s - fullScale) > scaleTolerance

\* One call of animate() on the closure's scale s: the new local scale, the
\* popupScale state it leaves, and whether it requested another frame.
animate(s) ==
    LET s2 == Eased(s) IN
    IF StillAnimating(s2)
        THEN [scale |-> s2, popupScale |-> s2, animationFrame |-> TRUE]
        ELSE [scale |-> s2, popupScale |-> fullScale, animationFrame |-> FALSE]

\* The effect of FixedImagePopup with dependency [image]: scale = 0.7 and a
\* first, synchronous animate().
StartScaleIn ==
    /\ scale' = animate(initialPopupScale).scale
    /\ popupScale' = animate(initialPopupScale).popupScale
    /\ animationFrame' = animate(initialPopupScale).animationFrame

\* The popup is shown and its scale-in has finished: no frame is pending.
PopupSettled == PopupMounted(showPopup, selectedImageIndex) /\ ~animationFrame

Render_effect_on_mount_only ==
    LET before == PopupMounted(showPopup, selectedImageIndex)
        after  == PopupMounted(showPopup', selectedImageIndex')
    IN  IF after /\ ~ImageDefined(imagesData, selectedImageIndex')
            THEN /\ crashed' = TRUE
                 /\ UNCHANGED animVars
        ELSE /\ crashed' = FALSE
             /\ IF after /\ ~before
                    THEN StartScaleIn
                ELSE IF ~after
                    THEN /\ popupScale' = 0
                         /\ scale' = 0
                         /\ animationFrame' = FALSE
                ELSE UNCHANGED animVars

\* The render that follows a handler's state updates.  Rendering the popup
\* for an index without a record throws; mounting the popup, or rendering
\* it with another image, runs the scale-in effect (after cancelling the
\* pending frame); unmounting it cancels the pending frame and drops the
\* component's state.
Render ==
    LET before == PopupMounted(showPopup, selectedImageIndex)
        after  == PopupMounted(showPopup', selectedImageIndex')
    IN  IF after /\ ~ImageDefined(imagesData, selectedImageIndex')
            THEN /\ crashed' = TRUE
                 /\ UNCHANGED animVars
        ELSE /\ crashed' = FALSE
             /\ IF after /\ (~before \/ selectedImageIndex' # selectedImageIndex)
                    THEN StartScaleIn
                ELSE IF ~after
                    THEN /\ popupScale' = 0
                         /\ scale' = 0
                         /\ animationFrame' = FALSE
                ELSE UNCHANGED animVars

handleImageClick(id) ==
    /\ ~crashed
    /\ selectedImageIndex' = Num(findIndex(imagesData, id))
    /\ showPopup' = TRUE
    /\ Render
    /\ last' = [op |-> "select", id |-> id, prevIndex |-> selectedImageIndex,
                 prevShow |-> showPopup, wasSettled |-> PopupSettled]
    /\ UNCHANGED <<imagesData, zoomVars, panVars>>

handleClosePopup ==
    /\ ~crashed
    /\ showPopup' = FALSE
    /\ UNCHANGED selectedImageIndex
    /\ Render
    /\ last' = [op |-> "close"]
    /\ UNCHANGED <<imagesData, zoomVars, panVars>>

\* History of a run of consecutive calls of one of next()/previous(): the
\* index before the first call of the run and the number of calls since.
\* A run of MaxRun calls is followed by a new run.
RunOf(op) ==
    IF last.op = op /\ last.count < MaxRun
        THEN [op |-> op, start |-> last.start, count |-> last.count + 1,
              wasSettled |-> PopupSettled]
        ELSE [op |-> op, start |-> selectedImageIndex, count |-> 1,
              wasSettled |-> PopupSettled]

handleNext ==
    /\ ~crashed
    /\ selectedImageIndex' = NextIndex(selectedImageIndex, Len(imagesData))
    /\ UNCHANGED showPopup
    /\ Render
    /\ last' = RunOf("next")
    /\ UNCHANGED <<imagesData, zoomVars, panVars>>

handlePrevious ==
    /\ ~crashed
    /\ selectedImageIndex' = PreviousIndex(selectedImageIndex, Len(imagesData))
    /\ UNCHANGED showPopup
    /\ Render
    /\ last' = RunOf("previous")
    /\ UNCHANGED <<imagesData, zoomVars, panVars>>

\* --------------------------------------------------- keyboard pan animator
\* Vectors carry x and y.  The camera is never rotated (enableRotate is
\* false), so columns 0 and 1 of its matrix are the x and y axes and no
\* operation of this component changes a z coordinate.

moveDistance == 2000          \* 0.2
distanceThreshold == 100      \* 0.01
smoothingTenths == 1          \* 0.1

ArrowKeys == {"ArrowUp", "ArrowDown", "ArrowLeft", "ArrowRight"}
Keys == ArrowKeys \cup {"Enter"}

Add(u, v) == Vec(u.x + v.x, u.y + v.y)

\* d * 0.1, truncated toward zero
Fraction(d) ==
    IF d >= 0 THEN (d * smoothingTenths) \div 10
    ELSE -(((-d) * smoothingTenths) \div 10)

\* Vector3.lerp(target, 0.1): this += (target - this) * 0.1
Lerp(u, target) ==
    Vec(u.x + Fraction(target.x - u.x), u.y + Fraction(target.y - u.y))

DistanceSquared(u, v) ==
    (u.x - v.x) * (u.x - v.x) + (u.y - v.y) * (u.y - v.y)

Within_only_when_equal(u, v) == u = v

\* Vector3.distanceTo(v) < distanceThreshold
Within(u, v) == DistanceSquared(u, v) < distanceThreshold * distanceThreshold

\* panOffset.setFromMatrixColumn(camera.matrix, c).multiplyScalar(+-moveDistance)
panOffset(key) ==
    IF key = "ArrowUp" THEN Vec(0, moveDistance)
    ELSE IF key = "ArrowDown" THEN Vec(0, -moveDistance)
    ELSE IF key = "ArrowLeft" THEN Vec(-moveDistance, 0)
    ELSE Vec(moveDistance, 0)

KeyIgnored_never == FALSE

\* if (showPopup) return;
KeyIgnored == showPopup

handleKeyDown(key) ==
    /\ ~crashed
    /\ IF KeyIgnored \/ ~controlsReady
          THEN UNCHANGED panVars
          ELSE LET targetPos == IF targetCameraPositionRef = Null
                                   THEN cameraPosition
                                   ELSE targetCameraPositionRef
                   targetLook == IF targetControlsLookAtRef = Null
                                    THEN controlsTarget
                                    ELSE targetControlsLookAtRef
               IN  IF key \in ArrowKeys
                      THEN /\ keysPressed < MaxKeys
                           /\ isAnimatingPanRef => framesSinceKey <= MaxGap
                           /\ framesSinceKey' = 0
                           /\ targetCameraPositionRef' = Add(targetPos, panOffset(key))
                           /\ targetControlsLookAtRef' = Add(targetLook, panOffset(key))
                           /\ isAnimatingPanRef' = TRUE
                           /\ keysPressed' = keysPressed + 1
                           /\ UNCHANGED <<controlsReady, cameraPosition, controlsTarget,
                                          pointerMoves>>
                      ELSE /\ targetCameraPositionRef' = targetPos
                           /\ targetControlsLookAtRef' = targetLook
                           /\ UNCHANGED <<controlsReady, cameraPosition, controlsTarget,
                                          isAnimatingPanRef, keysPressed,
                                          framesSinceKey, pointerMoves>>
    /\ last' = [op |-> "keydown", key |-> key]
    /\ UNCHANGED <<zoomVars, selVars, animVars>>

\* The ref of <MapControls> is attached once the Suspense boundary resolves.
MapControlsMounted ==
    /\ ~crashed
    /\ ~controlsReady
    /\ controlsReady' = TRUE
    /\ UNCHANGED <<cameraPosition, controlsTarget, targetCameraPositionRef,
                   targetControlsLookAtRef, isAnimatingPanRef, keysPressed,
                   framesSinceKey, pointerMoves>>
    /\ last' = [op |-> "mount"]
    /\ UNCHANGED <<zoomVars, selVars, animVars>>

\* isAnimatingPanRef.current && controlsRef.current &&
\* targetCameraPositionRef.current && targetControlsLookAtRef.current
PanArmed ==
    /\ isAnimatingPanRef
    /\ controlsReady
    /\ targetCameraPositionRef # Null
    /\ targetControlsLookAtRef # Null

\* The useFrame callback of SceneContent.
useFramePan ==
    IF PanArmed
        THEN LET pos  == Lerp(cameraPosition, targetCameraPositionRef)
                 look == Lerp(controlsTarget, targetControlsLookAtRef)
             IN  IF Within(pos, targetCameraPositionRef)
                      /\ Within(look, targetControlsLookAtRef)
                    THEN /\ cameraPosition' = targetCameraPositionRef
                         /\ controlsTarget' = targetControlsLookAtRef
                         /\ isAnimatingPanRef' = FALSE
                    ELSE /\ cameraPosition' = pos
                         /\ controlsTarget' = look
                         /\ UNCHANGED isAnimatingPanRef
        ELSE UNCHANGED <<cameraPosition, controlsTarget, isAnimatingPanRef>>

\* The requestAnimationFrame callback of the popup, when one is pending.
animateFrame ==
    IF animationFrame
        THEN /\ scale' = animate(scale).scale
             /\ popupScale' = animate(scale).popupScale
             /\ animationFrame' = animate(scale).animationFrame
        ELSE UNCHANGED animVars

\* One browser animation frame: the pending popup frame and the render
\* loop's useFrame callback both run.
AnimationFrame ==
    /\ ~crashed
    /\ animateFrame
    /\ useFramePan
    /\ framesSinceKey' = IF isAnimatingPanRef /\ framesSinceKey <= MaxGap
                             THEN framesSinceKey + 1
                             ELSE framesSinceKey
    /\ last' = [op |-> "frame", panIdle |-> ~isAnimatingPanRef,
                 popupSettled |-> ~animationFrame]
    /\ UNCHANGED <<controlsReady, targetCameraPositionRef,
                   targetControlsLookAtRef, keysPressed, pointerMoves>>
    /\ UNCHANGED <<zoomVars, selVars>>

\* The moves a pointer drag makes through <MapControls enablePan
\* mouseButtons={LEFT: PAN, RIGHT: PAN}>: a quarter of a key step along an axis.
PointerMoves ==
    { Vec(d, 0) : d \in {-(moveDistance \div 4), moveDistance \div 4} }
        \cup { Vec(0, d) : d \in {-(moveDistance \div 4), moveDistance \div 4} }

\* A pointer drag on the map: the controls pan, translating the camera and
\* its look-at point by the same vector.  The target refs are not theirs.
PointerPan(move) ==
    /\ ~crashed
    /\ controlsReady
    /\ pointerMoves < MaxPointerMoves
    /\ pointerMoves' = pointerMoves + 1
    /\ cameraPosition' = Add(cameraPosition, move)
    /\ controlsTarget' = Add(controlsTarget, move)
    /\ last' = [op |-> "pointer", move |-> move]
    /\ UNCHANGED <<controlsReady, targetCameraPositionRef, targetControlsLookAtRef,
                   isAnimatingPanRef, keysPressed, framesSinceKey>>
    /\ UNCHANGED <<zoomVars, selVars, animVars>>

\* --------------------------------------------------------- initial states

\* Experience: useState(null), useState(false); no popup is mounted.
InitSelection ==
    /\ selectedImageIndex = Null
    /\ showPopup = FALSE
    /\ crashed = FALSE
    /\ popupScale = 0
    /\ scale = 0
    /\ animationFrame = FALSE

\* SceneContent: useRef(null), useRef(null), useRef(false); the camera of
\* <Canvas camera={{position: [0, 0, 10]}}> looks at the origin.
InitPanAnimator ==
    /\ controlsReady = FALSE
    /\ cameraPosition = Origin
    /\ controlsTarget = Origin
    /\ targetCameraPositionRef = Null
    /\ targetControlsLookAtRef = Null
    /\ isAnimatingPanRef = FALSE
    /\ keysPressed = 0
    /\ framesSinceKey = 0
    /\ pointerMoves = 0

\* The zoom / drag controller alone, from any level of the range.
InitZoom ==
    /\ currentZoomLevel \in ZoomLevels
    /\ position = Origin
    /\ imagesData = <<>>
    /\ InitSelection
    /\ InitPanAnimator
    /\ last = [op |-> "init"]

NextZoom ==
    \/ \E mx \in Movements, my \in Movements : handleDrag(mx, my)
    \/ \E delta \in ZoomDeltas : handleZoom(delta)

SpecZoom == InitZoom /\ [][NextZoom]_vars

\* The selection / popup state machine, for every catalog.
InitSel ==
    /\ currentZoomLevel = minZoomLevel
    /\ position = Origin
    /\ imagesData \in Catalogs
    /\ InitSelection
    /\ InitPanAnimator
    /\ last = [op |-> "init"]

NextSel ==
    \/ \E id \in Ids : handleImageClick(id)
    \/ handleClosePopup
    \/ handleNext
    \/ handlePrevious
    \/ AnimationFrame

SpecSel == InitSel /\ [][NextSel]_vars

\* The keyboard pan animator with a popup that opens and closes.
SampleCatalog == <<2>>

\* imagesData.map(image => <ImagePlane id={image.id} onClick={handleImageClick}/>):
\* the ids a click on a rendered plane passes to handleImageClick.
RenderedIds == { imagesData[i] : i \in 1..Len(imagesData) }

InitPan ==
    /\ currentZoomLevel = minZoomLevel
    /\ position = Origin
    /\ imagesData = SampleCatalog
    /\ InitSelection
    /\ InitPanAnimator
    /\ last = [op |-> "init"]

NextPan ==
    \/ MapControlsMounted
    \/ \E key \in Keys : handleKeyDown(key)
    \/ AnimationFrame
    \/ \E id \in RenderedIds : handleImageClick(id)
    \/ handleClosePopup

SpecPan == InitPan /\ [][NextPan]_vars

\* The same program when the browser keeps delivering animation frames:
\* requestAnimationFrame callbacks and the render loop's useFrame run for as
\* long as they have something to do.
SpecPanFair == SpecPan /\ WF_vars(AnimationFrame)

\* The keyboard pan animator together with the pointer-driven map controls,
\* the popup closed.
NextPointer ==
    \/ MapControlsMounted
    \/ \E key \in Keys : handleKeyDown(key)
    \/ AnimationFrame
    \/ \E move \in PointerMoves : PointerPan(move)

SpecPointer == InitPan /\ [][NextPointer]_vars

\* ------------------------------------------------------------- properties

\* C1: in every state reached by zoom and drag operations, for every delta,
\* the zoom level lies between maxZoomLevel (1.0) and minZoomLevel (15.0).
ZoomLevelInRange ==
    /\ maxZoomLevel <= currentZoomLevel
    /\ currentZoomLevel <= minZoomLevel

\* a zoom far below the range, from inside it, was clamped to maxZoomLevel
ZoomClampedLow ==
    /\ last.op = "zoom"
    /\ last.delta = -HugeDelta
    /\ last.from > maxZoomLevel
    /\ currentZoomLevel = maxZoomLevel

\* C2: right after any zoom, if the resulting level is minZoomLevel then the
\* pan offset is {0, 0}.
CenteredAtMinAfterZoom ==
    (last.op = "zoom" /\ currentZoomLevel = minZoomLevel) => position = Origin

\* a zoom that reached minZoomLevel exactly, from below and with the view
\* dragged away from the centre
ZoomReachedMinExactly ==
    /\ last.op = "zoom"
    /\ last.from < minZoomLevel
    /\ last.from + last.delta = minZoomLevel
    /\ last.offset # Origin
    /\ currentZoomLevel = minZoomLevel

CatalogIds == { imagesData[i] : i \in 1..Len(imagesData) }

\* C3: select(id) for an id that is not in the catalog leaves
\* selectedImageIndex and showPopup as they were.
SelectAbsentIsNoOp ==
    [][(last'.op = "select" /\ last'.id \notin CatalogIds)
          => UNCHANGED <<selectedImageIndex, showPopup>>]_vars

\* C4: with an empty catalog, next() and previous() leave selectedImageIndex
\* unchanged.
EmptyCatalogNextPreviousNoOp ==
    [][(last'.op \in {"next", "previous"} /\ Len(imagesData) = 0)
          => selectedImageIndex' = selectedImageIndex]_vars

\* C5: whenever selectedImageIndex is set (not null) it is a valid catalog
\* index, 0 <= selectedImageIndex < catalog length.
SelectedIndexValid ==
    selectedImageIndex # Null =>
        /\ selectedImageIndex.kind = "number"
        /\ selectedImageIndex.value >= 0
        /\ selectedImageIndex.value < Len(imagesData)

\* C6: on a catalog of n > 0 images, k consecutive next() calls from index
\* i in 0..n-1 leave index (i + k) mod n, and k consecutive previous() calls
\* leave (i - k) mod n, taken in 0..n-1.
NextPreviousModular ==
    LET n == Len(imagesData) IN
    (/\ last.op \in {"next", "previous"}
     /\ n > 0
     /\ last.start.kind = "number"
     /\ last.start.value >= 0
     /\ last.start.value < n)
    => IF last.op = "next"
          THEN selectedImageIndex = Num((last.start.value + last.count) % n)
          ELSE selectedImageIndex = Num((last.start.value - last.count) % n)

\* three next() calls on a catalog of three images, from index 0, are back
\* at index 0
ThreeNextsWrapAround ==
    /\ last.op = "next"
    /\ Len(imagesData) = 3
    /\ last.start = Num(0)
    /\ last.count = 3
    /\ selectedImageIndex = Num(0)

\* C7: select(id) for an id present at catalog index j leaves
\* selectedImageIndex = j and showPopup = true, whatever the state before.
SelectPresentOpensAtIndex ==
    (last.op = "select" /\ last.id \in CatalogIds)
    => /\ showPopup
       /\ \E j \in 1..Len(imagesData) :
             /\ imagesData[j] = last.id
             /\ selectedImageIndex = Num(j - 1)

\* a select of a present id at a position other than the first, made while
\* the popup was open on another image
SelectedWhileOpenOnAnother ==
    /\ last.op = "select"
    /\ last.id \in CatalogIds
    /\ last.prevShow
    /\ last.prevIndex.kind = "number"
    /\ last.prevIndex # selectedImageIndex
    /\ selectedImageIndex.value > 0
    /\ showPopup
    /\ ~crashed

\* C8: while the popup is visible a key press leaves the pending camera
\* target (position and look-at) and the animating flag unchanged.
KeysIgnoredWhilePopup ==
    [][(last'.op = "keydown" /\ showPopup)
          => UNCHANGED <<targetCameraPositionRef, targetControlsLookAtRef,
                         isAnimatingPanRef>>]_vars

\* an arrow key pressed while the popup is visible over a pan animation
\* that is still running
ArrowKeyUnderPopup ==
    /\ last.op = "keydown"
    /\ last.key \in ArrowKeys
    /\ showPopup
    /\ controlsReady
    /\ isAnimatingPanRef
    /\ targetCameraPositionRef # Null
    /\ cameraPosition # targetCameraPositionRef

PanWithinTolerance ==
    /\ targetCameraPositionRef # Null
    /\ targetControlsLookAtRef # Null
    /\ Within(cameraPosition, targetCameraPositionRef)
    /\ Within(controlsTarget, targetControlsLookAtRef)

PopupWithinTolerance ==
    /\ PopupMounted(showPopup, selectedImageIndex)
    /\ Abs(fullScale - popupScale) <= scaleTolerance

PanState ==
    <<cameraPosition, controlsTarget, targetCameraPositionRef,
      targetControlsLookAtRef, isAnimatingPanRef>>

\* C9 as stated: a frame taken in a state where both remaining pan
\* distances are below the tolerance leaves camera, look-at, pending target
\* and animating flag unchanged, and one taken where |1 - popupScale| is
\* within the tolerance leaves popupScale unchanged.
FrameAfterConvergenceIsNoOp ==
    [][last'.op = "frame"
          => /\ PanWithinTolerance => UNCHANGED PanState
             /\ PopupWithinTolerance => UNCHANGED popupScale]_vars

\* C9, amended: the pan half holds of the frames taken while the animator
\* is Idle (both remaining distances below the tolerance and the animating
\* flag already cleared); the popup half holds as stated.
FrameWhenIdleIsNoOp ==
    [][last'.op = "frame"
          => /\ (PanWithinTolerance /\ ~isAnimatingPanRef) => UNCHANGED PanState
             /\ PopupWithinTolerance => UNCHANGED popupScale]_vars

\* a frame taken when the pan had converged on a target away from the start
\* and the popup had settled at full scale
FrameTakenAfterConvergence ==
    /\ last.op = "frame"
    /\ last.panIdle
    /\ last.popupSettled
    /\ PanWithinTolerance
    /\ cameraPosition # Origin
    /\ ~isAnimatingPanRef
    /\ PopupWithinTolerance

\* C10: a drag adds movement * 3.0 to the offset on each axis when the level
\* is strictly below 5.0 and movement * 2.5 otherwise, and leaves the level
\* unchanged.
DragAddsScaledMovement ==
    [][last'.op = "drag"
          => LET multiplier == IF currentZoomLevel < zoomedInBelow
                                  THEN fastPanSpeed ELSE basePanSpeed
             IN  /\ position'.x = position.x + last'.movementX * multiplier
                 /\ position'.y = position.y + last'.movementY * multiplier
                 /\ currentZoomLevel' = currentZoomLevel]_vars

\* a drag of one unit on x at level exactly 5.0, from the centre
DraggedAtThreshold ==
    /\ last.op = "drag"
    /\ last.movementX = 1
    /\ last.movementY = 0
    /\ currentZoomLevel = zoomedInBelow
    /\ position = Vec(basePanSpeed, 0)

\* C11: the frame that takes the animator from Animating to Idle leaves the
\* camera and the look-at exactly on the target and clears the pending
\* target (both target refs null), so that Idle implies no pending target.
ConvergingFrameClearsTarget ==
    [][(last'.op = "frame" /\ isAnimatingPanRef /\ ~isAnimatingPanRef')
          => /\ cameraPosition' = targetCameraPositionRef
             /\ controlsTarget' = targetControlsLookAtRef
             /\ targetCameraPositionRef' = Null
             /\ targetControlsLookAtRef' = Null]_vars

\* C12: an arrow key handled while the animator is Idle and the popup is
\* closed leaves a pending target equal to the camera position and look-at
\* at the moment of the press plus the key's step vector.
IdleKeyStartsFromCamera ==
    [][(/\ last'.op = "keydown"
        /\ last'.key \in ArrowKeys
        /\ ~showPopup
        /\ controlsReady
        /\ ~isAnimatingPanRef)
          => /\ targetCameraPositionRef' = Add(cameraPosition, panOffset(last'.key))
             /\ targetControlsLookAtRef' = Add(controlsTarget, panOffset(last'.key))]_vars

\* The scale-in has just been started again from the initial value: the
\* effect's scale began at 0.7 and its first, immediate step is in popupScale.
ScaleInRestarted ==
    /\ scale' = Eased(initialPopupScale)
    /\ popupScale' = Eased(initialPopupScale)
    /\ popupScale' < fullScale
    /\ animationFrame'

\* C13 as stated: every select(), next() and previous() made while the popup
\* is shown restarts the scale-in from the initial value, on every catalog
\* of one image or more.
EveryNavigationRestartsScaleIn ==
    [][(/\ last'.op \in {"select", "next", "previous"}
        /\ PopupMounted(showPopup, selectedImageIndex)
        /\ Len(imagesData) >= 1
        /\ ~crashed')
          => ScaleInRestarted]_vars

\* C13, amended: every select(), next() and previous() made while the popup
\* is shown that changes the selected image restarts the scale-in from the
\* initial value.
ImageChangeRestartsScaleIn ==
    [][(/\ last'.op \in {"select", "next", "previous"}
        /\ PopupMounted(showPopup, selectedImageIndex)
        /\ Len(imagesData) >= 1
        /\ ~crashed'
        /\ selectedImageIndex' # selectedImageIndex)
          => ScaleInRestarted]_vars

\* a next() that moved a popup settled at full scale to another image and
\* put it back at the first step of the scale-in
SettledPopupRestartedByNext ==
    /\ last.op = "next"
    /\ last.count = 1
    /\ last.wasSettled
    /\ last.start # selectedImageIndex
    /\ showPopup
    /\ ~crashed
    /\ popupScale = Eased(initialPopupScale)
    /\ animationFrame

\* Nothing is left to animate: the pan animator is Idle with the camera and
\* the look-at exactly on the target, and a shown popup is at full scale with
\* no frame scheduled.
Quiescent ==
    /\ ~isAnimatingPanRef
    /\ targetCameraPositionRef # Null => cameraPosition = targetCameraPositionRef
    /\ targetControlsLookAtRef # Null => controlsTarget = targetControlsLookAtRef
    /\ ~animationFrame
    /\ PopupMounted(showPopup, selectedImageIndex) => popupScale = fullScale

\* C14: if from some point on the only steps are frame ticks (no further
\* input) and frames keep being delivered, the system eventually stays
\* quiescent: the pan animator Idle with camera and look-at exactly on the
\* target, a started popup scale-in at exactly 1 with no frame scheduled.
EventuallyQuiescent ==
    <>[][last'.op = "frame"]_vars => <>[]Quiescent

\* a frame completed the last running animation after an arrow-key pan and a
\* popup scale-in: the camera rests on a target away from where it started
\* and the popup rests at full scale
PanAndScaleInCameToRest ==
    /\ last.op = "frame"
    /\ ~last.panIdle
    /\ Quiescent
    /\ keysPressed > 0
    /\ targetCameraPositionRef # Null
    /\ DistanceSquared(cameraPosition, targetCameraPositionRef) = 0
    /\ DistanceSquared(cameraPosition, Origin) >= moveDistance * moveDistance
    /\ showPopup
    /\ popupScale = fullScale

\* C15: a zoom changes the pan offset only by resetting it to {0, 0}, and
\* resets it exactly when the resulting level is minZoomLevel or the level
\* before the call was minZoomLevel; otherwise, the clamp to maxZoomLevel
\* included, the offset is left as it was.
ZoomResetsOffsetOnlyAtMin ==
    [][last'.op = "zoom"
          => position' = IF currentZoomLevel' = minZoomLevel
                               \/ currentZoomLevel = minZoomLevel
                            THEN Origin
                            ELSE position]_vars

\* a zoom in from minZoomLevel, with the view dragged away from the centre,
\* that ended below minZoomLevel and still centred the view
ZoomInFromMinCentered ==
    /\ last.op = "zoom"
    /\ last.from = minZoomLevel
    /\ last.delta < 0
    /\ last.offset # Origin
    /\ currentZoomLevel < minZoomLevel
    /\ position = Origin

\* C16 as stated: in every state reached by drags and zooms, if the level is
\* minZoomLevel then the pan offset is {0, 0}.
AlwaysCenteredAtMin ==
    currentZoomLevel = minZoomLevel => position = Origin

\* C16, amended: a step that ends at minZoomLevel with the pan offset away
\* from {0, 0} is a drag made while the level already was minZoomLevel; every
\* zoom that ends at minZoomLevel leaves the view centred, and so the view is
\* centred at minZoomLevel in every state not reached by such a drag.
OffCenterAtMinOnlyByDrag ==
    [][(currentZoomLevel' = minZoomLevel /\ position' # Origin)
          => (last'.op = "drag" /\ currentZoomLevel = minZoomLevel)]_vars

\* a zoom out past minZoomLevel, from below it and with the view dragged away
\* from the centre, that was clamped to minZoomLevel and centred the view
ZoomClampedToMinCentered ==
    /\ last.op = "zoom"
    /\ last.from < minZoomLevel
    /\ last.from + last.delta > minZoomLevel
    /\ last.offset # Origin
    /\ currentZoomLevel = minZoomLevel
    /\ position = Origin

====
